---- MODULE Spec2Model ----
(***************************************************************************)
(* A model of multi_anabim.py: the IFC -> Excel report pipeline            *)
(* (get_length_factor, get_site_geolocation, get_global_coords,            *)
(* get_levels, flatten_hierarchy, build_workbook) and the batch / merge    *)
(* loop of main() with process_single and discover_ifcs.                   *)
(*                                                                         *)
(* Conventions.                                                            *)
(*  - Python's None is the empty tuple <<>>, a present value v is <<v>>.   *)
(*  - A dict is the sequence of its <<key, value>> items in insertion      *)
(*    order (Python dicts keep insertion order).                           *)
(*  - Lengths that went through "* factor" are exact rationals written as  *)
(*    numerators over Den: factor 0.001 is 1/Den, factor 1.0 is Den/Den.   *)
(*  - TLA+ strings are ASCII: the sheet names and labels are written       *)
(*    without accents ("Resume", "Entites", "schema") and the "em dash"    *)
(*    placeholder of the Entities table is written "-".                    *)
(***************************************************************************)
EXTENDS Integers, Sequences, FiniteSets, TLC

VARIABLES
  ifc,        \* build_workbook: the file at ifc_path [name, size, content]
  wb,         \* build_workbook: what the call produced (or that it raised)
  args,       \* main: the parsed command line [merge, recursive, output]
  folder,     \* main: the files below args.src, a set of [path, content]
  ifc_files,  \* main: the list discover_ifcs returned
  idx,        \* main: position of the batch loop in ifc_files (1-based)
  merge_wb,   \* main: the accumulator workbook's sheets (merge mode)
  saved,      \* every save_wb call so far, in order: [path, sheets]
  pc          \* main: where the run is

vars == <<ifc, wb, args, folder, ifc_files, idx, merge_wb, saved, pc>>

(***************************************************************************)
(* Python values                                                           *)
(***************************************************************************)
None == <<>>

Some(v) == <<v>>

Val(o) == o[1]

\* Python truthiness of an optional number / string / tuple
TruthyNum(o) == o # None /\ Val(o) # 0

TruthyStr(o) == o # None /\ Val(o) # ""

TruthySeq(o) == o # None /\ Val(o) # <<>>

Range(s) == {s[k] : k \in 1..Len(s)}

RECURSIVE LexLess(_, _)
\* Python's comparison of two tuples (or strings, as code sequences)
LexLess(a, b) ==
  IF b = <<>> THEN FALSE
  ELSE IF a = <<>> THEN TRUE
  ELSE IF Head(a) # Head(b) THEN Head(a) < Head(b)
  ELSE LexLess(Tail(a), Tail(b))

RECURSIVE InsertByKey(_, _, _)
\* x goes after every element whose key is not greater than its own
InsertByKey(done, x, key) ==
  IF done = <<>> THEN <<x>>
  ELSE IF LexLess(key[x], key[Head(done)]) THEN <<x>> \o done
  ELSE <<Head(done)>> \o InsertByKey(Tail(done), x, key)

RECURSIVE SortIdx(_, _, _)
SortIdx(done, k, key) ==
  IF k > Len(key) THEN done
  ELSE SortIdx(InsertByKey(done, k, key), k + 1, key)

\* sorted(s, key=...): a stable ascending sort; key[k] is the key of s[k]
sorted(s, key) ==
  LET perm == SortIdx(<<>>, 1, key)
  IN  [k \in 1..Len(s) |-> s[perm[k]]]

(***************************************************************************)
(* The model: the instances of an open IFC file, in file order             *)
(***************************************************************************)
\* the IfcProduct subtypes the models hold
ProductKinds ==
  {"IfcSite", "IfcBuilding", "IfcBuildingStorey", "IfcWall", "IfcSlab",
   "IfcBuildingElementProxy"}

\* ent.is_a(kind): the instance's own type or one of its supertypes
IsA(ent, kind) == ent.is_a = kind \/ (kind = "IfcProduct" /\ ent.is_a \in ProductKinds)

\* model.by_type(kind): every instance of the type or of a subtype
by_type(model, kind) ==
  LET hit(ent) == IsA(ent, kind) IN SelectSeq(model.instances, hit)

\* the instance a relation refers to
ByGid(model, gid) ==
  LET ents == model.instances
  IN  ents[CHOOSE k \in 1..Len(ents) : "GlobalId" \in DOMAIN ents[k] /\ ents[k].GlobalId = gid]

\* getattr(ent, name, None); hasattr(ent, name) is name \in DOMAIN ent
GetAttr(ent, name) == IF name \in DOMAIN ent THEN ent[name] ELSE None

(***************************************************************************)
(* Unit Normalizer                                                         *)
(***************************************************************************)
Den == 1000

\* the first SI length unit of the first unit assignment; <<>> stands for
\* the IndexError / StopIteration the try block swallows
FirstLengthUnit(model) ==
  IF by_type(model, "IfcUnitAssignment") = <<>> THEN None
  ELSE LET ua == by_type(model, "IfcUnitAssignment")[1].Units
           hits == {k \in 1..Len(ua) :
                      ua[k].is_a = "IfcSIUnit" /\ ua[k].UnitType = "LENGTHUNIT"}
       IN  IF hits = {} THEN None
           ELSE Some(ua[CHOOSE k \in hits : \A j \in hits : k <= j])

get_length_factor(model) ==
  LET lu == FirstLengthUnit(model)
  IN  IF lu # None /\ GetAttr(Val(lu), "Prefix") = Some("MILLI") THEN 1 ELSE Den

(***************************************************************************)
(* Geodetic Converter                                                      *)
(***************************************************************************)
Abs(n) == IF n < 0 THEN -n ELSE n

\* decimal degrees as the exact pair (arc seconds, millionths of an arc
\* second): the value is (arcsec + micro / 1e6) / 3600 degrees
dms_to_dd(dms) ==
  IF dms = None THEN None
  ELSE LET parts == Val(dms) \o [k \in 1..(4 - Len(Val(dms))) |-> 0]
           deg == parts[1]
           minute == parts[2]
           sec == parts[3]
           micro == parts[4]
           sign == IF deg < 0 THEN -1 ELSE 1
       IN  Some([arcsec |-> sign * (Abs(deg) * 3600 + minute * 60 + sec),
                 micro |-> sign * micro])

(***************************************************************************)
(* Spatial Resolver                                                        *)
(***************************************************************************)
get_site_geolocation(model) ==
  IF by_type(model, "IfcSite") = <<>> THEN <<>>
  ELSE LET site == by_type(model, "IfcSite")[1]
       IN  << <<"latitude",
                IF TruthySeq(site.RefLatitude) THEN dms_to_dd(site.RefLatitude) ELSE None>>,
              <<"longitude",
                IF TruthySeq(site.RefLongitude) THEN dms_to_dd(site.RefLongitude) ELSE None>>,
              <<"elevation_m", site.RefElevation>> >>

Scaled(o, factor) == IF o # None THEN Some(Val(o) * factor) ELSE None

\* x, y, *rest = list(loc.Coordinates) + [None, None] ; z = rest[0]
PlacementXYZ(coords) ==
  LET padded == [k \in 1..Len(coords) |-> Some(coords[k])] \o <<None, None>>
  IN  [x |-> padded[1], y |-> padded[2], z |-> padded[3]]

\* the first site has a local placement
HasLocalPlacement(model) ==
  /\ by_type(model, "IfcSite") # <<>>
  /\ by_type(model, "IfcSite")[1].ObjectPlacement # None
  /\ Val(by_type(model, "IfcSite")[1].ObjectPlacement).is_a = "IfcLocalPlacement"

\* site.ObjectPlacement.RelativePlacement.Location.Coordinates
SiteCoordinates(model) == Val(by_type(model, "IfcSite")[1].ObjectPlacement).Coordinates

\* get_global_coords as it would be with field-by-field blending: a height
\* the map conversion leaves unset is filled from the site placement
get_global_coords_blended(model) ==
  LET factor == get_length_factor(model)
      map_conv == by_type(model, "IfcMapConversion")
  IN  IF map_conv # <<>>
      THEN << <<"X_global_m", Some(map_conv[1].Eastings * factor)>>,
              <<"Y_global_m", Some(map_conv[1].Northings * factor)>>,
              <<"Z_global_m",
                IF map_conv[1].OrthogonalHeight # None
                THEN Some(Val(map_conv[1].OrthogonalHeight) * factor)
                ELSE IF HasLocalPlacement(model)
                THEN Scaled(PlacementXYZ(SiteCoordinates(model)).z, factor)
                ELSE None>> >>
      ELSE IF HasLocalPlacement(model)
      THEN LET p == PlacementXYZ(SiteCoordinates(model))
           IN  << <<"X_global_m", Scaled(p.x, factor)>>,
                  <<"Y_global_m", Scaled(p.y, factor)>>,
                  <<"Z_global_m", Scaled(p.z, factor)>> >>
      ELSE <<>>

get_global_coords(model) ==
  LET factor == get_length_factor(model)
      map_conv == by_type(model, "IfcMapConversion")
  IN  IF map_conv # <<>>
      THEN << <<"X_global_m", Some(map_conv[1].Eastings * factor)>>,
              <<"Y_global_m", Some(map_conv[1].Northings * factor)>>,
              <<"Z_global_m",
                IF map_conv[1].OrthogonalHeight # None
                THEN Some((IF TruthyNum(map_conv[1].OrthogonalHeight)
                           THEN Val(map_conv[1].OrthogonalHeight) ELSE 0) * factor)
                ELSE None>> >>
      ELSE IF HasLocalPlacement(model)
      THEN LET p == PlacementXYZ(SiteCoordinates(model))
           IN  << <<"X_global_m", Scaled(p.x, factor)>>,
                  <<"Y_global_m", Scaled(p.y, factor)>>,
                  <<"Z_global_m", Scaled(p.z, factor)>> >>
      ELSE <<>>

\* dict.get(key, default)
DictGetOr(d, key, default) ==
  LET hits == {k \in 1..Len(d) : d[k][1] = key}
  IN  IF hits = {} THEN default ELSE d[CHOOSE k \in hits : TRUE][2]

\* dict.get(key): None when the key is missing
DictGet(d, key) == DictGetOr(d, key, None)

DictKeys(d) == [k \in 1..Len(d) |-> d[k][1]]

(***************************************************************************)
(* Levels                                                                  *)
(***************************************************************************)
get_levels(model) ==
  LET storeys == by_type(model, "IfcBuildingStorey")
      levels == [k \in 1..Len(storeys) |-> <<storeys[k].Name, GetAttr(storeys[k], "Elevation")>>]
      key == [k \in 1..Len(levels) |->
                <<IF TruthyNum(levels[k][2]) THEN Val(levels[k][2]) ELSE 0>>]
  IN  sorted(levels, key)

(***************************************************************************)
(* Hierarchy Flattener                                                     *)
(***************************************************************************)
\* the deepest nesting of walk() the interpreter allows before it raises
\* RecursionError (sys.getrecursionlimit(), far larger in CPython)
RecursionLimit == 4

\* d[key] = value on a dict kept as its item list
DictSet(d, key, value) ==
  IF \E k \in 1..Len(d) : d[k][1] = key
  THEN [k \in 1..Len(d) |-> IF d[k][1] = key THEN <<key, value>> ELSE d[k]]
  ELSE Append(d, <<key, value>>)

\* one step of the dict comprehension: rels[parent id] = children
RelsIndexStep(d, rel) == DictSet(d, rel.RelatingObject, rel.RelatedObjects)

RECURSIVE RelsIndexFrom(_, _)
RelsIndexFrom(d, relations) ==
  IF relations = <<>> THEN d
  ELSE RelsIndexFrom(RelsIndexStep(d, Head(relations)), Tail(relations))

\* rels = {rel.RelatingObject.GlobalId: rel.RelatedObjects for rel in ...}
RelsIndex(model) == RelsIndexFrom(<<>>, by_type(model, "IfcRelAggregates"))

\* rels.get(gid, [])
Children(rels, gid) == DictGetOr(rels, gid, <<>>)

\* ent.Name or ent.LongName or ent.GlobalId
DisplayName(model, gid) ==
  LET ent == ByGid(model, gid)
  IN  IF TruthyStr(ent.Name) THEN Val(ent.Name)
      ELSE IF TruthyStr(ent.LongName) THEN Val(ent.LongName)
      ELSE gid

\* f"{ent.is_a()}:{name}"
Label(model, gid) == ByGid(model, gid).is_a \o ":" \o DisplayName(model, gid)

RECURSIVE Join(_, _)
\* sep.join(parts)
Join(parts, sep) ==
  IF parts = <<>> THEN ""
  ELSE IF Len(parts) = 1 THEN parts[1]
  ELSE parts[1] \o sep \o Join(Tail(parts), sep)

\* HierarchyRow as it would be with the depth taken after the node is
\* added to the path (len(new_path) for len(path))
HierarchyRowDepthOffByOne(model, gid, path) ==
  [Type |-> ByGid(model, gid).is_a,
   Nom |-> DisplayName(model, gid),
   Profondeur |-> Len(path) + 1,
   Chemin |-> Join(Append(path, Label(model, gid)), "/"),
   gid |-> gid]

\* the row walk() appends; gid is kept beside the four columns only to
\* relate a row to the node it came from
HierarchyRow(model, gid, path) ==
  [Type |-> ByGid(model, gid).is_a,
   Nom |-> DisplayName(model, gid),
   Profondeur |-> Len(path),
   Chemin |-> Join(Append(path, Label(model, gid)), "/"),
   gid |-> gid]

RECURSIVE walk(_, _, _, _, _)
RECURSIVE walk_children(_, _, _, _, _)
\* walk(ent, path) with the enclosing rows list threaded through as
\* acc = [rows, ok]; ok = FALSE once RecursionError is propagating
walk(model, rels, gid, path, acc) ==
  IF Len(path) >= RecursionLimit THEN [rows |-> acc.rows, ok |-> FALSE]
  ELSE walk_children(model, rels, Children(rels, gid),
                     Append(path, Label(model, gid)),
                     [rows |-> Append(acc.rows, HierarchyRow(model, gid, path)),
                      ok |-> TRUE])

\* for child in rels.get(ent.GlobalId, []): walk(child, new_path)
walk_children(model, rels, kids, new_path, acc) ==
  IF kids = <<>> \/ ~acc.ok THEN acc
  ELSE walk_children(model, rels, Tail(kids), new_path,
                     walk(model, rels, Head(kids), new_path, acc))

flatten_hierarchy(model) ==
  IF by_type(model, "IfcProject") = <<>> THEN [rows |-> <<>>, ok |-> TRUE]
  ELSE walk(model, RelsIndex(model), by_type(model, "IfcProject")[1].GlobalId, <<>>,
            [rows |-> <<>>, ok |-> TRUE])

(***************************************************************************)
(* Entity Aggregator                                                       *)
(***************************************************************************)
\* Subtype as it would be with the two sources tried in the other order:
\* ObjectType before PredefinedType
SubtypeObjectTypeFirst(obj) ==
  IF TruthyStr(GetAttr(obj, "ObjectType")) THEN GetAttr(obj, "ObjectType")
  ELSE IF "PredefinedType" \in DOMAIN obj /\ obj.PredefinedType # None
  THEN obj.PredefinedType
  ELSE None

\* typ: str(obj.PredefinedType) if the attribute exists and is not None,
\* else a truthy ObjectType, else None
Subtype(obj) ==
  IF "PredefinedType" \in DOMAIN obj /\ obj.PredefinedType # None THEN obj.PredefinedType
  ELSE IF TruthyStr(GetAttr(obj, "ObjectType")) THEN GetAttr(obj, "ObjectType")
  ELSE None

RECURSIVE CountFrom(_, _)
\* entity_counter[key] = entity_counter.get(key, 0) + 1, product by product
CountFrom(counter, objs) ==
  IF objs = <<>> THEN counter
  ELSE LET key == <<Head(objs).is_a, Subtype(Head(objs))>>
       IN  CountFrom(DictSet(counter, key, DictGetOr(counter, key, 0) + 1), Tail(objs))

entity_counter(model) == CountFrom(<<>>, by_type(model, "IfcProduct"))

\* the entity kinds of the model in Python's string order
KindNames ==
  <<"IfcBuilding", "IfcBuildingElementProxy", "IfcBuildingStorey", "IfcSite", "IfcSlab",
    "IfcWall">>

StrRank(name) == CHOOSE k \in 1..Len(KindNames) : KindNames[k] = name

\* key=lambda x: (-x[1], x[0][0])
EntitySortKey(item) == <<0 - item[2], StrRank(item[1][1])>>

\* ent_rows: one dict per item of the sorted counter
ent_rows(model) ==
  LET items == entity_counter(model)
      ordered == sorted(items, [k \in 1..Len(items) |-> EntitySortKey(items[k])])
  IN  [k \in 1..Len(ordered) |->
         <<ordered[k][1][1],
           IF TruthyStr(ordered[k][1][2]) THEN Val(ordered[k][1][2]) ELSE "-",
           ordered[k][2]>>]

(***************************************************************************)
(* Report Assembler                                                        *)
(***************************************************************************)
Units == <<"B", "KB", "MB", "GB", "TB">>

RECURSIVE SizeIn(_, _, _)
\* the for loop of human_readable_size on the exact value bytes_ / scale;
\* "%3.1f" rounds to the nearest tenth, ties to even
SizeIn(bytes_, k, scale) ==
  IF k > Len(Units) \/ bytes_ < 1024 * scale
  THEN LET q == (bytes_ * 10) \div scale
           r == (bytes_ * 10) % scale
           up == 2 * r > scale \/ (2 * r = scale /\ q % 2 = 1)
       IN  [tenths |-> IF up THEN q + 1 ELSE q,
            unit |-> IF k > Len(Units) THEN "PB" ELSE Units[k]]
  ELSE SizeIn(bytes_, k + 1, scale * 1024)

human_readable_size(bytes_) == SizeIn(bytes_, 1, 1)

\* pd.DataFrame(list of dicts): the columns are the dicts' keys, and an
\* empty list gives a frame with no columns at all
FrameOfDicts(columns, rows) ==
  [columns |-> IF rows = <<>> THEN <<>> ELSE columns, rows |-> rows]

\* pd.DataFrame(..., columns=[...]) and pd.DataFrame({column: list}): the
\* columns exist whatever the number of rows
FrameOfColumns(columns, rows) == [columns |-> columns, rows |-> rows]

summary_pairs(file, glob, geo) ==
  << <<"fichier", Some(file.name)>>,
     <<"taille", Some(human_readable_size(file.size))>>,
     <<"schema", Some(file.model.schema)>> >> \o glob \o geo

levels_rows(model, glob) ==
  LET factor == get_length_factor(model)
      site_z == DictGet(glob, "Z_global_m")
      lvls == get_levels(model)
      level_alt == [k \in 1..Len(lvls) |-> Scaled(lvls[k][2], factor)]
      level_ngf == [k \in 1..Len(lvls) |->
                      IF level_alt[k] # None /\ site_z # None
                      THEN Some(Val(level_alt[k]) + Val(site_z)) ELSE None]
  IN  [k \in 1..Len(lvls) |-> <<lvls[k][1], level_alt[k], level_ngf[k]>>]

\* add_table_and_resize: the declared table region (start_row = start_col = 1)
TableRef(df) ==
  [first_col |-> 2, first_row |-> 2,
   last_col |-> 2 + Len(df.columns) - 1, last_row |-> 2 + Len(df.rows)]

\* the Entites pass: df["Entite IFC"] then one highlighted row per proxy
ProxyRows(df) ==
  {3 + (k - 1) : k \in {j \in 1..Len(df.rows) : df.rows[j][1] = "IfcBuildingElementProxy"}}

\* one iteration of "for sheet, df in sheets_data": header and data cells
\* (write_df), the table region, and on Entites the highlighted rows with
\* their "Attention" cell just after the last column
RenderSheet(sheet, df) ==
  [title |-> sheet,
   columns |-> df.columns,
   rows |-> df.rows,
   table |-> [displayName |-> sheet \o "Tbl", ref |-> TableRef(df)],
   fills |-> IF sheet = "Entites" THEN ProxyRows(df) ELSE {},
   attention |-> IF sheet = "Entites"
                 THEN {<<r, 2 + Len(df.columns)>> : r \in ProxyRows(df)} ELSE {}]

Raised(exc) == [status |-> "raised", exc |-> exc, sheets |-> <<>>]

\* build_workbook once the model is open: the four frames, then the sheets
build_workbook_sheets(file) ==
  LET model == file.model
      glob == get_global_coords(model)
      geo == get_site_geolocation(model)
      hier == flatten_hierarchy(model)
      entities_df == FrameOfDicts(<<"Entite IFC", "Type", "Nombre">>, ent_rows(model))
  IN  IF ~hier.ok THEN Raised("RecursionError")
      ELSE IF \A k \in 1..Len(entities_df.columns) : entities_df.columns[k] # "Entite IFC"
      THEN Raised("KeyError")
      ELSE [status |-> "ok", exc |-> "",
            sheets |->
              << RenderSheet("Resume", FrameOfColumns(<<"Propriete", "Valeur">>,
                                                      summary_pairs(file, glob, geo))),
                 RenderSheet("Niveaux",
                             FrameOfColumns(<<"Nom", "Altimetrie locale (m)",
                                              "Altimetrie NGF (m)">>,
                                            levels_rows(model, glob))),
                 RenderSheet("Arborescence",
                             FrameOfDicts(<<"Type", "Nom", "Profondeur", "Chemin">>,
                                          hier.rows)),
                 RenderSheet("Entites", entities_df) >>]

\* ifcopenshell.open raises on a file it cannot read or parse
build_workbook(file) ==
  IF ~file.readable THEN Raised("OpenError") ELSE build_workbook_sheets(file)

(***************************************************************************)
(* Batch helpers                                                           *)
(***************************************************************************)
\* the code point of each character the model's file names are made of
CharCode(c) ==
  CASE c = "." -> 46 [] c = "1" -> 49 [] c = "2" -> 50 [] c = "A" -> 65
    [] c = "a" -> 97 [] c = "b" -> 98 [] c = "c" -> 99 [] c = "f" -> 102
    [] c = "i" -> 105 [] c = "s" -> 115 [] c = "t" -> 116 [] c = "u" -> 117
    [] c = "x" -> 120

PathParts(f) == f.dir \o <<f.stem \o f.suffix>>

RECURSIVE PathKey(_)
\* the key Path.__lt__ compares: the parts in order, each a string; the
\* 0 closing a part sorts a part before every longer part it starts
PathKey(parts) ==
  IF parts = <<>> THEN <<>>
  ELSE [k \in 1..Len(Head(parts)) |-> CharCode(Head(parts)[k])] \o <<0>>
       \o PathKey(Tail(parts))

SetToSeq(S) ==
  CHOOSE q \in [1..Cardinality(S) -> S] : \A a, b \in 1..Cardinality(S) : a # b => q[a] # q[b]

\* folder.glob("**/*.ifc" if recursive else "*.ifc"), files only, sorted
discover_ifcs(files, recursive) ==
  LET hits == {f \in files : f.suffix = <<".", "i", "f", "c">> /\ (recursive \/ f.dir = <<>>)}
      found == SetToSeq(hits)
  IN  sorted(found, [k \in 1..Len(found) |-> PathKey(PathParts(found[k]))])

\* str.lower() on the characters the model's stems use (a sheet name is
\* one element of a title and only ever meets itself)
Lower(c) == IF c = "A" THEN "a" ELSE c

LowerAll(t) == [k \in 1..Len(t) |-> Lower(t[k])]

Digits == <<"0", "1", "2", "3", "4", "5", "6", "7", "8", "9">>

IsDigit(c) == \E d \in 1..10 : Digits[d] = c

DigitValue(c) == (CHOOSE d \in 1..10 : Digits[d] = c) - 1

RECURSIVE DigitRun(_)
\* the longest run of digits a character sequence starts with
DigitRun(t) ==
  IF t = <<>> \/ ~IsDigit(Head(t)) THEN <<>> ELSE <<Head(t)>> \o DigitRun(Tail(t))

RECURSIVE ToInt(_, _)
ToInt(run, acc) ==
  IF run = <<>> THEN acc ELSE ToInt(Tail(run), acc * 10 + DigitValue(Head(run)))

RECURSIVE ToDigits(_)
ToDigits(n) ==
  IF n < 10 THEN <<Digits[n + 1]>> ELSE ToDigits(n \div 10) \o <<Digits[(n % 10) + 1]>>

IsPrefix(p, t) == Len(p) <= Len(t) /\ SubSeq(t, 1, Len(p)) = p

\* Workbook.create_sheet's title rule (openpyxl avoid_duplicate_name): a
\* title already present, compared without case, gets the next integer
\* after the highest one found behind that title among the names
avoid_duplicate_name(names, value) ==
  IF \E k \in 1..Len(names) : LowerAll(names[k]) = LowerAll(value)
  THEN LET hits == {k \in 1..Len(names) : IsPrefix(LowerAll(value), LowerAll(names[k]))}
           runs == {DigitRun(SubSeq(names[k], Len(value) + 1, Len(names[k]))) : k \in hits}
           counts == {ToInt(r, 0) : r \in runs \ {<<>>}}
           highest == IF counts = {} THEN 0
                      ELSE CHOOSE c \in counts : \A d \in counts : d <= c
       IN  value \o ToDigits(highest + 1)
  ELSE value

\* SheetTitle as it would be without the input's stem
SheetTitleUnqualified(sheet, stem) == <<sheet>>

\* f"{sheet}_{ifc_path.stem}", as the sheet name followed by characters
SheetTitle(sheet, stem) == <<sheet, "_">> \o stem

Titles(sheets) == [k \in 1..Len(sheets) |-> sheets[k].title]

RECURSIVE CopySheets(_, _, _)
\* for sheet in wb.sheetnames: create the sheet in the accumulator under
\* its qualified title and copy every cell's value and style
CopySheets(acc, sheets, f) ==
  IF sheets = <<>> THEN acc
  ELSE CopySheets(
         Append(acc, [title |-> avoid_duplicate_name(Titles(acc),
                                                     SheetTitle(Head(sheets).title, f.stem)),
                      source |-> PathParts(f),
                      sheet |-> Head(sheets)]),
         Tail(sheets), f)

\* (out_dir or ifc_path.parent) / ifc_path.with_suffix(".xlsx").name
Target(f, out_dir) ==
  (IF out_dir # None THEN Val(out_dir) ELSE f.dir) \o <<f.stem \o <<".", "x", "l", "s", "x">> >>

(***************************************************************************)
(* The models and folders the checks draw from                             *)
(***************************************************************************)
MaxRels == 2

MaxProducts == 4

MaxFiles == 3

SeqsUpTo(S, n) == UNION {[1..k -> S] : k \in 0..n}

Metre == [is_a |-> "IfcSIUnit", UnitType |-> "LENGTHUNIT", Prefix |-> None]

Millimetre == [is_a |-> "IfcSIUnit", UnitType |-> "LENGTHUNIT", Prefix |-> Some("MILLI")]

\* a unit that is no IfcSIUnit has no Prefix attribute
Foot == [is_a |-> "IfcConversionBasedUnit", UnitType |-> "LENGTHUNIT"]

SquareMetre == [is_a |-> "IfcSIUnit", UnitType |-> "AREAUNIT", Prefix |-> None]

UnitAssignment(units) == [is_a |-> "IfcUnitAssignment", Units |-> units]

\* no unit assignment, one without an SI length unit, metres, millimetres
UnitChoices ==
  {<<>>, <<UnitAssignment(<<SquareMetre, Foot>>)>>,
   <<UnitAssignment(<<SquareMetre, Metre>>)>>,
   <<UnitAssignment(<<SquareMetre, Millimetre>>)>>}

MapConvChoices ==
  {<<>>} \cup {<<[is_a |-> "IfcMapConversion", Eastings |-> 7000, Northings |-> 8000,
                  OrthogonalHeight |-> h]>> : h \in {None, Some(0), Some(9000)}}

PlacementChoices ==
  {None,
   Some([is_a |-> "IfcGridPlacement"]),
   Some([is_a |-> "IfcLocalPlacement", Coordinates |-> <<10, 20>>]),
   Some([is_a |-> "IfcLocalPlacement", Coordinates |-> <<10, 20, 30>>])}

Site(lat, lon, el, pl) ==
  [is_a |-> "IfcSite", GlobalId |-> "A", Name |-> Some(""), LongName |-> Some("Terrain"),
   ObjectType |-> None, RefLatitude |-> lat, RefLongitude |-> lon, RefElevation |-> el,
   ObjectPlacement |-> pl]

SiteChoices ==
  {<<>>} \cup
  {<<Site(lat, lon, el, pl)>> :
     lat \in {None, Some(<<48, 52, 0>>)},
     lon \in {None, Some(<<-2, 20, 30, 500000>>)},
     el \in {None, Some(35)},
     pl \in PlacementChoices}

Storey(gid, name, elevation) ==
  [is_a |-> "IfcBuildingStorey", GlobalId |-> gid, Name |-> name, LongName |-> None,
   ObjectType |-> None, Elevation |-> elevation]

StoreyChoices ==
  {<<>>,
   <<Storey("S1", Some("R+1"), None)>>,
   <<Storey("S1", Some("R+1"), Some(3000)), Storey("S2", Some("RDC"), Some(0)),
     Storey("S3", Some("SS"), None)>>}

Wall == [is_a |-> "IfcWall", PredefinedType |-> Some("S"), ObjectType |-> Some("T")]

\* IFC2X3: an IfcBuildingElementProxy has no PredefinedType attribute
Proxy == [is_a |-> "IfcBuildingElementProxy", ObjectType |-> Some("T")]

ProductChoices ==
  {[is_a |-> "IfcSlab", ObjectType |-> None],
   [is_a |-> "IfcSlab", PredefinedType |-> None, ObjectType |-> Some("")],
   [is_a |-> "IfcSlab", PredefinedType |-> None, ObjectType |-> Some("S")],
   Wall,
   [is_a |-> "IfcWall", ObjectType |-> Some("T")],
   Proxy}

Project == [is_a |-> "IfcProject", GlobalId |-> "p", Name |-> Some("P"),
            LongName |-> Some("Projet")]

BaseSite ==
  Site(Some(<<48, 52, 0>>), Some(<<2, 21, 0>>), Some(35),
       Some([is_a |-> "IfcLocalPlacement", Coordinates |-> <<10, 20, 30>>]))

Building(gid, name) ==
  [is_a |-> "IfcBuilding", GlobalId |-> gid, Name |-> name, LongName |-> None,
   ObjectType |-> None]

RelAggregates(parent, kids) ==
  [is_a |-> "IfcRelAggregates", RelatingObject |-> parent, RelatedObjects |-> kids]

\* the nodes the aggregation relations may name
Gids == {"p", "A", "B", "C"}

KidLists == {<<"A">>, <<"B">>, <<"C">>, <<"p">>, <<"A", "B">>, <<"B", "C">>}

RelChoices == {RelAggregates(g, kids) : g \in Gids, kids \in KidLists}

Model(instances) == [schema |-> "IFC4", instances |-> instances]

\* a complete, well-formed model: what a readable file of a batch holds
BaseModel ==
  Model(<<Project, UnitAssignment(<<SquareMetre, Metre>>), BaseSite,
          Building("B", None), Storey("S1", Some("RDC"), Some(0)), Wall,
          RelAggregates("p", <<"A">>), RelAggregates("A", <<"B">>),
          RelAggregates("B", <<"S1">>)>>)

FileOf(model) == [name |-> "modele.ifc", size |-> 1536, readable |-> TRUE, model |-> model]

NoWorkbook == [status |-> "none", exc |-> "", sheets |-> <<>>]

Ifc == <<".", "i", "f", "c">>

Sub == <<"s", "u", "b">>

\* the files a source folder may hold: five models, two of them with the
\* same base name in different folders, and one file that is no model
CandidateFiles ==
  {[dir |-> <<>>, stem |-> <<"a">>, suffix |-> Ifc],
   [dir |-> <<>>, stem |-> <<"A">>, suffix |-> Ifc],
   [dir |-> <<>>, stem |-> <<"a", "1">>, suffix |-> Ifc],
   [dir |-> <<>>, stem |-> <<"b">>, suffix |-> Ifc],
   [dir |-> <<Sub>>, stem |-> <<"a">>, suffix |-> Ifc],
   [dir |-> <<>>, stem |-> <<"b">>, suffix |-> <<".", "t", "x", "t">>]}

WithReadable(f, r) ==
  [dir |-> f.dir, stem |-> f.stem, suffix |-> f.suffix, readable |-> r]

\* ifc_path as build_workbook sees it
Opened(f) ==
  [name |-> f.stem \o f.suffix, size |-> 1536, readable |-> f.readable, model |-> BaseModel]

(***************************************************************************)
(* build_workbook on one file                                              *)
(***************************************************************************)
NoBatch ==
  /\ args = [merge |-> FALSE, recursive |-> FALSE, output |-> None]
  /\ folder = {}
  /\ ifc_files = <<>>
  /\ idx = 0
  /\ merge_wb = <<>>
  /\ saved = <<>>
  /\ pc = "build"

\* every combination of the data-quality gaps of a model that opens; the
\* project aggregates the site when the model has both
GapsInit ==
  /\ \E u \in UnitChoices, mc \in MapConvChoices, st \in SiteChoices,
        lv \in StoreyChoices, el \in {<<>>, <<Wall>>, <<Proxy, Wall>>},
        pr \in {<<>>, <<Project>>} :
       ifc = FileOf(Model(pr \o u \o mc \o st \o lv \o el
                          \o (IF pr # <<>> /\ st # <<>>
                              THEN <<RelAggregates("p", <<"A">>)>> ELSE <<>>)))
  /\ wb = NoWorkbook
  /\ NoBatch

\* every list of at most MaxRels aggregation relations over a project, a
\* site and two buildings, with or without the project
HierarchyInit ==
  /\ \E rels \in SeqsUpTo(RelChoices, MaxRels), pr \in {<<>>, <<Project>>} :
       /\ pr = <<>> => \A k \in 1..Len(rels) :
                          rels[k].RelatingObject # "p" /\ "p" \notin Range(rels[k].RelatedObjects)
       /\ ifc = FileOf(Model(pr \o <<BaseSite, Building("B", None),
                                     Building("C", Some("Bat C"))>> \o rels))
  /\ wb = NoWorkbook
  /\ NoBatch

\* every list of at most MaxProducts products, with or without a site
EntitiesInit ==
  /\ \E el \in SeqsUpTo(ProductChoices, MaxProducts), st \in {<<>>, <<BaseSite>>} :
       ifc = FileOf(Model(st \o el))
  /\ wb = NoWorkbook
  /\ NoBatch

BuildWorkbook ==
  /\ pc = "build"
  /\ wb.status = "none"
  /\ wb' = build_workbook(ifc)
  /\ UNCHANGED <<ifc, args, folder, ifc_files, idx, merge_wb, saved, pc>>

BuildNext == BuildWorkbook

GapsSpec == GapsInit /\ [][BuildNext]_vars

HierarchySpec == HierarchyInit /\ [][BuildNext]_vars

EntitiesSpec == EntitiesInit /\ [][BuildNext]_vars

(***************************************************************************)
(* main(): the batch loop over a source folder                             *)
(***************************************************************************)
Out == <<"o", "u", "t">>

BatchInit ==
  /\ \E S \in SUBSET CandidateFiles, m \in BOOLEAN, r \in BOOLEAN, o \in {None, Some(<<Out>>)} :
       /\ Cardinality(S) <= MaxFiles
       /\ \E U \in SUBSET S : folder = {WithReadable(f, f \notin U) : f \in S}
       /\ args = [merge |-> m, recursive |-> r, output |-> o]
  /\ ifc_files = <<>>
  /\ idx = 0
  /\ merge_wb = <<>>
  /\ saved = <<>>
  /\ pc = "start"
  /\ ifc = FileOf(BaseModel)
  /\ wb = NoWorkbook

\* ifc_files = discover_ifcs(...); sys.exit when there is none; the empty
\* accumulator of a merge run
Discover ==
  /\ pc = "start"
  /\ ifc_files' = discover_ifcs(folder, args.recursive)
  /\ IF ifc_files' = <<>>
     THEN pc' = "exit" /\ idx' = idx
     ELSE pc' = "loop" /\ idx' = 1
  /\ UNCHANGED <<ifc, wb, args, folder, merge_wb, saved>>

\* one iteration of "for f in ifc_files: process_single(...)": nothing
\* catches what build_workbook raises, so the exception leaves main()
ProcessSingle ==
  /\ pc = "loop"
  /\ idx <= Len(ifc_files)
  /\ LET f == ifc_files[idx]
         out_dir == IF args.merge THEN None ELSE args.output
     IN  /\ ifc' = Opened(f)
         /\ wb' = build_workbook(Opened(f))
         /\ IF wb'.status = "raised"
            THEN pc' = "raised" /\ UNCHANGED <<idx, merge_wb, saved>>
            ELSE IF args.merge
            THEN /\ merge_wb' = CopySheets(merge_wb, wb'.sheets, f)
                 /\ idx' = idx + 1
                 /\ UNCHANGED <<saved, pc>>
            ELSE /\ saved' = Append(saved, [path |-> Target(f, out_dir),
                                            source |-> PathParts(f),
                                            sheets |-> wb'.sheets])
                 /\ idx' = idx + 1
                 /\ UNCHANGED <<merge_wb, pc>>
  /\ UNCHANGED <<args, folder, ifc_files>>

\* after the loop: the accumulator is saved to args.output or to
\* src / "rapport_ifc.xlsx"
Finish ==
  /\ pc = "loop"
  /\ idx > Len(ifc_files)
  /\ saved' = IF args.merge
              THEN Append(saved, [path |-> IF args.output # None THEN Val(args.output)
                                           ELSE <<"rapport_ifc.xlsx">>,
                                  source |-> <<>>,
                                  sheets |-> merge_wb])
              ELSE saved
  /\ pc' = "done"
  /\ UNCHANGED <<ifc, wb, args, folder, ifc_files, idx, merge_wb>>

BatchNext == Discover \/ ProcessSingle \/ Finish

BatchSpec == BatchInit /\ [][BatchNext]_vars

(***************************************************************************)
(* Properties of the batch loop                                            *)
(***************************************************************************)
SheetNames == <<"Resume", "Niveaux", "Arborescence", "Entites">>

Ended == pc \in {"done", "raised"}

Readable == {k \in 1..Len(ifc_files) : ifc_files[k].readable}

\* C1: batch isolation in standalone mode. When a standalone run over a
\* folder has ended, every input that opens has exactly one persisted output
\* (those after a failing input included) and the loop has gone through
\* every input.  The code has no handler around process_single: the first
\* input that fails ends the run, and no failure list exists at all.
C1_BatchIsolation ==
  (~args.merge /\ Ended) =>
    /\ pc = "done"
    /\ Len(saved) = Cardinality(Readable)
    /\ \A k \in Readable : \E j \in 1..Len(saved) : saved[j].source = PathParts(ifc_files[k])

\* C2: merge mode. When a merge run has ended, the accumulator has been
\* persisted exactly once, and the persisted document holds the four sheets
\* of every input that opens, those after a failing input included, and no
\* sheet of an input that fails.
C2_MergePersistedOnce ==
  (args.merge /\ Ended) =>
    /\ Len(saved) = 1
    /\ Len(saved[1].sheets) = 4 * Cardinality(Readable)
    /\ \A k \in 1..Len(ifc_files) :
         Cardinality({j \in 1..Len(saved[1].sheets) :
                        saved[1].sheets[j].source = PathParts(ifc_files[k])})
           = IF ifc_files[k].readable THEN 4 ELSE 0

\* beside C2: between iterations the accumulator only grows at its end
AccumulatorAppendOnly == [][IsPrefix(merge_wb, merge_wb')]_vars

Distinct(titles) ==
  \A a, b \in 1..Len(titles) : a # b => LowerAll(titles[a]) # LowerAll(titles[b])

\* the inputs copied into the accumulator so far
Merged == IF pc \in {"loop", "done", "raised"} THEN idx - 1 ELSE 0

\* C3 as stated: every sheet of the accumulator is named exactly
\* {sheet}_{stem of its input}, four per processed input, and no two
\* sheets bear the same name, two inputs with one base name included.
C3_ExactTitles ==
  args.merge =>
    /\ Len(merge_wb) = 4 * Merged
    /\ \A j \in 1..Merged : \A n \in 1..4 :
         merge_wb[4 * (j - 1) + n].title = <<SheetNames[n], "_">> \o ifc_files[j].stem
    /\ Distinct(Titles(merge_wb))

\* C3 as amended: the accumulator holds four sheets per processed input, in
\* the order Resume, Niveaux, Arborescence, Entites, each named
\* {sheet}_{stem} followed by nothing or by a number; the names are pairwise
\* distinct, letter case aside; and a sheet is named exactly {sheet}_{stem}
\* unless an earlier sheet of the accumulator already bears that name,
\* letter case aside.
C3_QualifiedTitles ==
  args.merge =>
    /\ Len(merge_wb) = 4 * Merged
    /\ \A j \in 1..Merged : \A n \in 1..4 :
         LET at == 4 * (j - 1) + n
             title == merge_wb[at].title
             exact == <<SheetNames[n], "_">> \o ifc_files[j].stem
             rest == SubSeq(title, Len(exact) + 1, Len(title))
         IN  /\ merge_wb[at].source = PathParts(ifc_files[j])
             /\ merge_wb[at].sheet.title = SheetNames[n]
             /\ IsPrefix(exact, title)
             /\ \A c \in 1..Len(rest) : IsDigit(rest[c])
             /\ (title = exact) <=>
                  ~\E e \in 1..(at - 1) : LowerAll(merge_wb[e].title) = LowerAll(exact)
    /\ Distinct(Titles(merge_wb))

\* a finished merge of two inputs with the same base name: eight sheets
C3_Witness ==
  /\ args.merge
  /\ pc = "done"
  /\ Len(saved) = 1
  /\ Len(saved[1].sheets) = 8
  /\ ifc_files[1].stem = ifc_files[2].stem
  /\ saved[1].sheets[5].title = <<"Resume", "_", "a", "1">>

(***************************************************************************)
(* Properties of build_workbook                                            *)
(***************************************************************************)
Built == wb.status = "ok"

SummaryRows == wb.sheets[1].rows

HierarchyRows == wb.sheets[3].rows

EntityRows == wb.sheets[4].rows

\* C5: GlobalOrigin comes from the map conversion alone when there is one
\* (eastings, northings and height times the unit scale, Z unset when the
\* height is absent, whatever the site placement holds), from the first
\* site's local placement times the unit scale when there is no map
\* conversion (Z unset for two coordinates), and is unset otherwise.
C5_GlobalOrigin ==
  Built =>
    LET model == ifc.model
        scale == get_length_factor(model)
        mc == by_type(model, "IfcMapConversion")
        sites == by_type(model, "IfcSite")
        X == DictGet(SummaryRows, "X_global_m")
        Y == DictGet(SummaryRows, "Y_global_m")
        Z == DictGet(SummaryRows, "Z_global_m")
        placed == /\ sites # <<>>
                  /\ sites[1].ObjectPlacement # None
                  /\ Val(sites[1].ObjectPlacement).is_a = "IfcLocalPlacement"
    IN  IF mc # <<>>
        THEN /\ X = Some(mc[1].Eastings * scale)
             /\ Y = Some(mc[1].Northings * scale)
             /\ Z = IF mc[1].OrthogonalHeight = None THEN None
                    ELSE Some(Val(mc[1].OrthogonalHeight) * scale)
        ELSE IF placed
        THEN LET c == Val(sites[1].ObjectPlacement).Coordinates
             IN  /\ X = Some(c[1] * scale)
                 /\ Y = Some(c[2] * scale)
                 /\ Z = IF Len(c) >= 3 THEN Some(c[3] * scale) ELSE None
        ELSE X = None /\ Y = None /\ Z = None

\* a model in millimetres with a map conversion without height and a site
\* placed at three coordinates: X and Y from the map conversion, Z unset
C5_Witness ==
  /\ Built
  /\ by_type(ifc.model, "IfcMapConversion") # <<>>
  /\ by_type(ifc.model, "IfcMapConversion")[1].OrthogonalHeight = None
  /\ HasLocalPlacement(ifc.model)
  /\ Len(SiteCoordinates(ifc.model)) = 3
  /\ get_length_factor(ifc.model) = 1
  /\ DictGet(SummaryRows, "X_global_m") = Some(7000)
  /\ DictGet(SummaryRows, "Z_global_m") = None

\* C7: the Summary table of every model has the same nine keys in the same
\* order, an unset field being a row with an empty value.
C7_SummaryKeys ==
  Built =>
    DictKeys(SummaryRows) =
      <<"fichier", "taille", "schema", "X_global_m", "Y_global_m", "Z_global_m",
        "latitude", "longitude", "elevation_m">>

\* C8: for a model that opens, whatever it lacks (geolocation, map
\* conversion, unit assignment, project, level elevations, products),
\* build_workbook returns a workbook with the four sheets.
C8_GapsNeverRaise ==
  (ifc.readable /\ wb.status # "none") =>
    /\ Built
    /\ [k \in 1..Len(wb.sheets) |-> wb.sheets[k].title] = SheetNames

(***************************************************************************)
(* Properties of the Entities table                                        *)
(***************************************************************************)
\* the subtype as the table shows it: the predefined type if there is one,
\* else the object type if it is not empty, else the placeholder
Shown(obj) ==
  IF "PredefinedType" \in DOMAIN obj /\ obj.PredefinedType # None
  THEN Val(obj.PredefinedType)
  ELSE IF "ObjectType" \in DOMAIN obj /\ obj.ObjectType \notin {None, Some("")}
  THEN Val(obj.ObjectType)
  ELSE "-"

\* C6: the Entities table has one row per (kind, subtype) pair of the
\* model's products and no pair twice; a row's count is the number of
\* products with that pair; the rows go by count descending, then by kind
\* name ascending.
C6_EntityTable ==
  Built =>
    LET products == by_type(ifc.model, "IfcProduct")
        rows == EntityRows
    IN  /\ \A a, b \in 1..Len(rows) :
             a # b => <<rows[a][1], rows[a][2]>> # <<rows[b][1], rows[b][2]>>
        /\ \A a \in 1..Len(rows) :
             rows[a][3] = Cardinality({k \in 1..Len(products) :
                                         /\ products[k].is_a = rows[a][1]
                                         /\ Shown(products[k]) = rows[a][2]})
        /\ \A k \in 1..Len(products) : \E a \in 1..Len(rows) :
             rows[a][1] = products[k].is_a /\ rows[a][2] = Shown(products[k])
        /\ \A a \in 1..(Len(rows) - 1) :
             \/ rows[a][3] > rows[a + 1][3]
             \/ /\ rows[a][3] = rows[a + 1][3]
                /\ StrRank(rows[a][1]) <= StrRank(rows[a + 1][1])

\* three slabs without subtype and one wall of subtype S, the wall first in
\* the file
C6_Witness ==
  /\ Built
  /\ Len(by_type(ifc.model, "IfcProduct")) = 4
  /\ by_type(ifc.model, "IfcProduct")[1] = Wall
  /\ EntityRows = << <<"IfcSlab", "-", 3>>, <<"IfcWall", "S", 1>> >>

(***************************************************************************)
(* Properties of the Hierarchy table                                       *)
(***************************************************************************)
\* the row of the node a row hangs under: the last row before it that is
\* one level up
ParentRow(rows, k) ==
  LET ups == {j \in 1..(k - 1) : rows[j].Profondeur = rows[k].Profondeur - 1}
  IN  CHOOSE j \in ups : \A u \in ups : u <= j

\* the nodes of the rows hanging under row j, in row order
KidsInRows(rows, j) ==
  LET under(k) == /\ k > j
                  /\ rows[k].Profondeur = rows[j].Profondeur + 1
                  /\ \A m \in (j + 1)..(k - 1) : rows[m].Profondeur > rows[j].Profondeur
      at == SelectSeq([k \in 1..Len(rows) |-> k], under)
  IN  [k \in 1..Len(at) |-> rows[at[k]].gid]

RECURSIVE Flatten(_)
Flatten(lists) == IF lists = <<>> THEN <<>> ELSE Head(lists) \o Flatten(Tail(lists))

\* the children every aggregation relation of the model gives a node, in
\* relation order
DeclaredKids(model, gid) ==
  LET rels == by_type(model, "IfcRelAggregates")
      mine(rel) == rel.RelatingObject = gid
      own == SelectSeq(rels, mine)
  IN  Flatten([k \in 1..Len(own) |-> own[k].RelatedObjects])

\* C4: the rows are a pre-order walk of the indexed tree from the project:
\* none without a project; the project first at depth 0 with its own label
\* as path; every other row one level below the row it hangs under, its
\* path that row's path, "/", and its own kind:name; and under every row
\* its children in the order of the index's list.
C4_PreOrder ==
  Built =>
    LET model == ifc.model
        rows == HierarchyRows
        label(k) == rows[k].Type \o ":" \o rows[k].Nom
    IN  IF by_type(model, "IfcProject") = <<>> THEN rows = <<>>
        ELSE /\ Len(rows) >= 1
             /\ rows[1].gid = by_type(model, "IfcProject")[1].GlobalId
             /\ rows[1].Profondeur = 0
             /\ rows[1].Chemin = label(1)
             /\ \A k \in 1..Len(rows) : rows[k].Type = ByGid(model, rows[k].gid).is_a
             /\ \A k \in 2..Len(rows) :
                  /\ rows[k].Profondeur >= 1
                  /\ rows[k].Profondeur <= rows[k - 1].Profondeur + 1
                  /\ rows[k].Chemin = rows[ParentRow(rows, k)].Chemin \o "/" \o label(k)
             /\ \A j \in 1..Len(rows) :
                  KidsInRows(rows, j) = Children(RelsIndex(model), rows[j].gid)

\* project -> site -> [building B, building C]: four rows, depths 0 1 2 2
C4_Witness ==
  /\ Built
  /\ by_type(ifc.model, "IfcRelAggregates") =
       <<RelAggregates("p", <<"A">>), RelAggregates("A", <<"B", "C">>)>>
  /\ [k \in 1..Len(HierarchyRows) |-> HierarchyRows[k].Profondeur] = <<0, 1, 2, 2>>
  /\ HierarchyRows[4].Chemin = "IfcProject:P/IfcSite:Terrain/IfcBuilding:Bat C"
  /\ HierarchyRows[3].Chemin = "IfcProject:P/IfcSite:Terrain/IfcBuilding:B"

\* C9: under every row, the rows of its children are the children of every
\* aggregation relation naming that node, in relation order: no relation's
\* children are dropped.
C9_ChildListsConcatenated ==
  Built =>
    \A j \in 1..Len(HierarchyRows) :
      KidsInRows(HierarchyRows, j) = DeclaredKids(ifc.model, HierarchyRows[j].gid)

Nodes(model) ==
  {model.instances[k].GlobalId :
     k \in {j \in 1..Len(model.instances) : "GlobalId" \in DOMAIN model.instances[j]}}

RECURSIVE ReachFrom(_, _, _)
\* the nodes some path of aggregation relations leads to from the set S
ReachFrom(model, S, n) ==
  IF n = 0 THEN S
  ELSE ReachFrom(model, S \cup UNION {Range(DeclaredKids(model, g)) : g \in S}, n - 1)

Below(model, g) ==
  ReachFrom(model, Range(DeclaredKids(model, g)), Cardinality(Nodes(model)))

\* an aggregation cycle can be reached from the project
CycleReachable(model) ==
  /\ by_type(model, "IfcProject") # <<>>
  /\ LET root == by_type(model, "IfcProject")[1].GlobalId
     IN  \E g \in {root} \cup Below(model, root) : g \in Below(model, g)

RECURSIVE PathsFrom(_, _)
RECURSIVE PathsThrough(_, _)
\* the number of paths of aggregation relations that start at a node
PathsFrom(model, g) == 1 + PathsThrough(model, DeclaredKids(model, g))

PathsThrough(model, kids) ==
  IF kids = <<>> THEN 0
  ELSE PathsFrom(model, Head(kids)) + PathsThrough(model, Tail(kids))

\* C10: flatten_hierarchy returns, with one row per path from the project,
\* exactly when no aggregation cycle can be reached from the project; with
\* such a cycle it never returns a result.
C10_Termination ==
  wb.status # "none" =>
    IF CycleReachable(ifc.model) THEN wb.status = "raised"
    ELSE /\ Built
         /\ Len(HierarchyRows) =
              IF by_type(ifc.model, "IfcProject") = <<>> THEN 0
              ELSE PathsFrom(ifc.model, by_type(ifc.model, "IfcProject")[1].GlobalId)

====
